---- MODULE Spec2Model ----
(***************************************************************************)
(* Model of the learning-state logic of the Urdu flashcard trainer         *)
(* (src/main.py, class FlashcardApp): the list of words still to learn,    *)
(* the single undo slot, the session counter, the two CSV files and the    *)
(* auto-flip timer of the Tk event loop.  One action per event handler.    *)
(***************************************************************************)
EXTENDS Integers, Sequences, FiniteSets

\* ------------------------------------------------------------------ data

\* Largest number of rows of the original dataset file that is enumerated.
MaxRows == 2

\* Largest number of file operations (write, delete, read) that fail in a
\* behaviour of SpecIO.
MaxIOFailures == 1

\* The built-in demo records (Urdu written in Latin transliteration).
Salam == [Urdu |-> "salam", English |-> "Hello"]
Shukriya == [Urdu |-> "shukriya", English |-> "Thank you"]
Pani == [Urdu |-> "pani", English |-> "Water"]

DemoData == <<Salam, Shukriya, Pani>>

\* Records the rows of an enumerated dataset file are drawn from
\* (a file may repeat a row).
Vocab == {Salam, Shukriya}

\* current_card = {} : the dict without keys, for which .get(k, "") is "".
NoCard == [Urdu |-> "", English |-> ""]

\* last_removed is None (<<>>) or one record (<<r>>).
None == <<>>

Range(s) == {s[i] : i \in DOMAIN s}

\* Number of occurrences of record x in list s.
RECURSIVE Count(_, _)
Count(x, s) ==
    IF s = <<>> THEN 0
    ELSE (IF Head(s) = x THEN 1 ELSE 0) + Count(x, Tail(s))

\* Mutant of Remove: every element equal to x is dropped.
RemoveAll(s, x) == SelectSeq(s, LAMBDA e : e # x)

\* list.remove(x): drops the first element equal to x.
RECURSIVE Remove(_, _)
Remove(s, x) ==
    IF s = <<>> THEN <<>>
    ELSE IF Head(s) = x THEN Tail(s)
    ELSE <<Head(s)>> \o Remove(Tail(s), x)

\* ------------------------------------------------------------- CSV files

\* A file of the data directory: missing, or CSV text seen as a header line
\* (the column names) followed by one line of cells per row.
Absent == [exists |-> FALSE, header |-> <<>>, rows |-> <<>>]

Columns == <<"Urdu", "English">>

\* pd.DataFrame(records).to_csv(path, index=False): the columns are the keys
\* of the records, so an empty list has no columns and the file is one
\* empty line.
to_csv(records) ==
    [exists |-> TRUE,
     header |-> IF records = <<>> THEN <<>> ELSE Columns,
     rows   |-> [i \in 1..Len(records) |->
                    <<records[i].Urdu, records[i].English>>]]

\* pd.read_csv(path).to_dict(orient="records"): a file without a header line
\* raises EmptyDataError (ok = FALSE); otherwise one record per row.
read_csv(file) ==
    IF file.header = <<>>
    THEN [ok |-> FALSE, data |-> <<>>]
    ELSE [ok |-> TRUE,
          data |-> [i \in 1..Len(file.rows) |->
                       [Urdu |-> file.rows[i][1], English |-> file.rows[i][2]]]]

\* Every list of at most n records of Vocab.
ListsUpTo(n) == UNION {[1..k -> Vocab] : k \in 0..n}

\* The original dataset files enumerated: a header and 0..MaxRows rows.
DatasetFiles ==
    {[exists |-> TRUE,
      header |-> Columns,
      rows   |-> [i \in 1..Len(l) |-> <<l[i].Urdu, l[i].English>>]]
        : l \in ListsUpTo(MaxRows)}

\* ----------------------------------------------------------------- state

VARIABLES
    original_file,        \* Config.ORIGINAL_FILE (read-only input)
    progress_file,        \* Config.PROGRESS_FILE
    to_learn,             \* self.to_learn
    original_count,       \* self.original_count
    current_card,         \* self.current_card
    last_removed,         \* self.last_removed
    cards_learned_today,  \* self.cards_learned_today
    is_flipped,           \* self.is_flipped
    auto_flip_enabled,    \* self.auto_flip_enabled
    flip_timer,           \* self.flip_timer: "None" or the id of the latest after()
    pending,              \* Tk's outstanding flip_card callbacks: the card each was scheduled for
    latest_live,          \* whether the callback flip_timer names is still outstanding
    op,                   \* name of the handler that ran last
    pre,                  \* the store as it was when that handler started
    trail,                \* how far the latest requests follow Scenario
    stored_count,         \* cards_learned_today before the is_known that
                          \* filled last_removed (0 while it is None)
    intervened,           \* a callback is outstanding and the user has
                          \* acted since window.after scheduled it
    io_left               \* number of file operations that may still fail

store == <<to_learn, original_count, current_card, last_removed,
           cards_learned_today>>
files == <<original_file, progress_file>>
timer == <<is_flipped, auto_flip_enabled, flip_timer, pending, latest_live>>
vars == <<original_file, progress_file, to_learn, original_count,
          current_card, last_removed, cards_learned_today, is_flipped,
          auto_flip_enabled, flip_timer, pending, latest_live, op, pre, trail,
          stored_count, intervened, io_left>>

\* Snapshot taken at the start of every handler; of the handler before, it
\* tells only whether that was is_known or a completed reset.
Snapshot ==
    [to_learn |-> to_learn,
     current_card |-> current_card,
     last_removed |-> last_removed,
     cards_learned_today |-> cards_learned_today,
     op |-> IF op \in {"is_known", "reset_progress"} THEN op ELSE "other"]

\* The run of requests the trail follows: mark known, mark known, undo, undo.
Scenario == <<"K", "K", "U", "U">>

\* Whether the last k elements of s are the first k of Scenario.
Matches(s, k) ==
    /\ k <= Len(s)
    /\ k <= Len(Scenario)
    /\ SubSeq(s, Len(s) - k + 1, Len(s)) = SubSeq(Scenario, 1, k)

\* The trail after request x: the longest end of the requests so far that
\* is a beginning of Scenario.
Push(t, x) ==
    LET s == Append(t, x)
        k == CHOOSE n \in 0..Len(s) :
                 /\ Matches(s, n)
                 /\ \A m \in 0..Len(s) : Matches(s, m) => m <= n
    IN SubSeq(Scenario, 1, k)

\* is_known gets past its guard.
KnownGuard == current_card # NoCard /\ to_learn # <<>>

\* The handler name takes the card away from the user or turns it over:
\* manual_flip, next_card, an is_known past its guard, a completed
\* reset_progress, or _toggle_auto_flip switching the auto-flip off.
Intervenes(name) ==
    \/ name \in {"manual_flip", "next_card", "reset_progress"}
    \/ name = "is_known" /\ KnownGuard
    \/ name = "_toggle_auto_flip" /\ auto_flip_enabled

\* The handler name gets to window.after in next_card (or in __init__).
Schedules(name) ==
    /\ \/ name \in {"next_card", "reset_progress", "restart"}
       \/ name = "is_known" /\ KnownGuard
    /\ to_learn' # <<>>
    /\ auto_flip_enabled'

\* Bookkeeping of every handler: its name, the snapshot, and the trail: a
\* "mark known" that passes its guard adds K, an undo request adds U, a
\* completed reset and a restart empty it, the other handlers leave it.
Logged(name) ==
    /\ op' = name
    /\ pre' = Snapshot
    /\ trail' = CASE name = "is_known" /\ current_card # NoCard /\ to_learn # <<>>
                        -> Push(trail, "K")
                   [] name = "undo_last" -> Push(trail, "U")
                   [] name \in {"reset_progress", "restart"} -> <<>>
                   [] OTHER -> trail
    /\ stored_count' = IF last_removed' = None THEN 0
                       ELSE IF name = "is_known" /\ KnownGuard
                            THEN cards_learned_today
                            ELSE stored_count
    /\ intervened' = /\ pending' # <<>>
                     /\ ~Schedules(name)
                     /\ intervened \/ Intervenes(name)

\* ------------------------------------------------------------ operations

\* Mutant of _load_data: a progress file that cannot be parsed is passed
\* over like one without rows.
LoadDataBlankFallsBack(pf, of) ==
    IF pf.exists /\ read_csv(pf).ok /\ Len(read_csv(pf).data) > 0
    THEN read_csv(pf).data
    ELSE IF of.exists
         THEN read_csv(of).data
         ELSE DemoData

\* _load_data, given the two files as they are when it runs: an exception
\* of read_csv is caught and the list is empty.
_load_data(pf, of) ==
    IF pf.exists /\ ~read_csv(pf).ok
    THEN <<>>
    ELSE IF pf.exists /\ Len(read_csv(pf).data) > 0
    THEN read_csv(pf).data
    ELSE IF of.exists
         THEN (IF read_csv(of).ok THEN read_csv(of).data ELSE <<>>)
         ELSE DemoData

\* _load_data when reading may fail: a file that is there and cannot be read
\* raises, the exception is caught and the list is empty.
Loaded(pf, of, read_ok) ==
    IF ~read_ok /\ (pf.exists \/ of.exists)
    THEN <<>>
    ELSE _load_data(pf, of)

\* window.after_cancel(self.flip_timer), guarded by "if self.flip_timer":
\* the callback the id names is dropped if it is still outstanding.
AfterCancel ==
    IF flip_timer # "None" /\ latest_live
    THEN SubSeq(pending, 1, Len(pending) - 1)
    ELSE pending

\* The cards random.choice may draw from tl (the list empty: no draw).
Choices(tl) == IF tl = <<>> THEN {current_card} ELSE Range(tl)

\* next_card on the list tl, random.choice drawing c.
next_card_on(tl, c) ==
    IF tl = <<>>
    THEN /\ c = current_card
         /\ current_card' = current_card
         /\ is_flipped' = is_flipped
         /\ flip_timer' = flip_timer
         /\ pending' = AfterCancel
         /\ latest_live' = FALSE
    ELSE /\ c \in Range(tl)
         /\ current_card' = c
         /\ is_flipped' = FALSE
         /\ IF auto_flip_enabled
            THEN /\ flip_timer' = "Id"
                 /\ pending' = Append(AfterCancel, c)
                 /\ latest_live' = TRUE
            ELSE /\ flip_timer' = flip_timer
                 /\ pending' = AfterCancel
                 /\ latest_live' = FALSE

\* Mutant of _save_progress: the rows are added at the end of the file that
\* is there.
SaveAppends(tl, save_ok) ==
    IF save_ok /\ progress_file.exists
    THEN [exists |-> TRUE,
          header |-> Columns,
          rows   |-> progress_file.rows \o to_csv(tl).rows]
    ELSE IF save_ok THEN to_csv(tl) ELSE progress_file

\* _save_progress: the whole file is rewritten; a failed write is caught
\* and leaves the file as it was.
_save_progress(tl, save_ok) ==
    IF save_ok THEN to_csv(tl) ELSE progress_file

\* Mutant of next_card: the skipped card is put back at the end of the list.
next_card_requeues ==
    /\ \E c \in Choices(to_learn) : next_card_on(to_learn, c)
    /\ to_learn' = IF to_learn = <<>> THEN to_learn
                   ELSE Append(to_learn, current_card)
    /\ UNCHANGED <<files, original_count, last_removed,
                   cards_learned_today, auto_flip_enabled>>
    /\ Logged("next_card")

\* Mutant of next_card: skipping a card empties the undo slot.
next_card_clears_slot ==
    /\ \E c \in Choices(to_learn) : next_card_on(to_learn, c)
    /\ last_removed' = None
    /\ UNCHANGED <<files, to_learn, original_count,
                   cards_learned_today, auto_flip_enabled>>
    /\ Logged("next_card")

\* The "Don't Know" button and the Right key.
next_card ==
    /\ \E c \in Choices(to_learn) : next_card_on(to_learn, c)
    /\ UNCHANGED <<files, to_learn, original_count, last_removed,
                   cards_learned_today, auto_flip_enabled>>
    /\ Logged("next_card")

\* Mutant of is_known: the guard looks at the current card only, not at the
\* list.
is_known_checks_card_only(save_ok) ==
    /\ IF current_card = NoCard
       THEN UNCHANGED <<files, store, timer>>
       ELSE LET tl == IF current_card \in Range(to_learn)
                      THEN Remove(to_learn, current_card)
                      ELSE to_learn
            IN /\ last_removed' = <<current_card>>
               /\ to_learn' = tl
               /\ cards_learned_today' = cards_learned_today + 1
               /\ progress_file' = _save_progress(tl, save_ok)
               /\ \E c \in Choices(tl) : next_card_on(tl, c)
               /\ UNCHANGED <<original_file, original_count, auto_flip_enabled>>
    /\ Logged("is_known")

\* Mutant of is_known: a write that fails takes the whole request back.
is_known_stops_on_failure(save_ok) ==
    /\ IF current_card = NoCard \/ to_learn = <<>> \/ ~save_ok
       THEN UNCHANGED <<files, store, timer>>
       ELSE LET tl == IF current_card \in Range(to_learn)
                      THEN Remove(to_learn, current_card)
                      ELSE to_learn
            IN /\ last_removed' = <<current_card>>
               /\ to_learn' = tl
               /\ cards_learned_today' = cards_learned_today + 1
               /\ progress_file' = _save_progress(tl, save_ok)
               /\ \E c \in Choices(tl) : next_card_on(tl, c)
               /\ UNCHANGED <<original_file, original_count, auto_flip_enabled>>
    /\ Logged("is_known")

\* The "Know It!" button and the Left key.
is_known(save_ok) ==
    /\ IF current_card = NoCard \/ to_learn = <<>>
       THEN UNCHANGED <<files, store, timer>>
       ELSE LET tl == IF current_card \in Range(to_learn)
                      THEN Remove(to_learn, current_card)
                      ELSE to_learn
            IN /\ last_removed' = <<current_card>>
               /\ to_learn' = tl
               /\ cards_learned_today' = cards_learned_today + 1
               /\ progress_file' = _save_progress(tl, save_ok)
               /\ \E c \in Choices(tl) : next_card_on(tl, c)
               /\ UNCHANGED <<original_file, original_count, auto_flip_enabled>>
    /\ Logged("is_known")

\* max(0, n)
Max0(n) == IF n > 0 THEN n ELSE 0

\* Mutant of undo_last: the slot is not cleared.
undo_last_keeps_slot(save_ok) ==
    /\ IF last_removed = None
       THEN UNCHANGED <<files, store, timer>>
       ELSE LET tl == Append(to_learn, last_removed[1])
            IN /\ to_learn' = tl
               /\ cards_learned_today' = Max0(cards_learned_today - 1)
               /\ progress_file' = _save_progress(tl, save_ok)
               /\ UNCHANGED <<original_file, original_count, current_card,
                              last_removed, timer>>
    /\ Logged("undo_last")

\* Mutant of undo_last: the counter is taken down before the slot is looked at.
undo_last_counts_first(save_ok) ==
    /\ cards_learned_today' = Max0(cards_learned_today - 1)
    /\ IF last_removed = None
       THEN UNCHANGED <<files, to_learn, original_count, current_card,
                        last_removed, timer>>
       ELSE LET tl == Append(to_learn, last_removed[1])
            IN /\ to_learn' = tl
               /\ progress_file' = _save_progress(tl, save_ok)
               /\ last_removed' = None
               /\ UNCHANGED <<original_file, original_count, current_card, timer>>
    /\ Logged("undo_last")

\* Mutant of undo_last: the session counter is not restored.
undo_last_keeps_count(save_ok) ==
    /\ IF last_removed = None
       THEN UNCHANGED <<files, store, timer>>
       ELSE LET tl == Append(to_learn, last_removed[1])
            IN /\ to_learn' = tl
               /\ progress_file' = _save_progress(tl, save_ok)
               /\ last_removed' = None
               /\ UNCHANGED <<original_file, original_count, current_card,
                              cards_learned_today, timer>>
    /\ Logged("undo_last")

\* The Undo button and the u key.
undo_last(save_ok) ==
    /\ IF last_removed = None
       THEN UNCHANGED <<files, store, timer>>
       ELSE LET tl == Append(to_learn, last_removed[1])
            IN /\ to_learn' = tl
               /\ cards_learned_today' = Max0(cards_learned_today - 1)
               /\ progress_file' = _save_progress(tl, save_ok)
               /\ last_removed' = None
               /\ UNCHANGED <<original_file, original_count, current_card, timer>>
    /\ Logged("undo_last")

\* Mutant of reset_progress: the data is reloaded before the progress file
\* is deleted.
reset_progress_loads_first(confirm, unlink_ok, read_ok) ==
    IF ~confirm
    THEN /\ UNCHANGED <<files, store, timer>>
         /\ Logged("reset_declined")
    ELSE IF progress_file.exists /\ ~unlink_ok
    THEN /\ UNCHANGED <<files, store, timer>>
         /\ Logged("reset_failed")
    ELSE LET tl == Loaded(progress_file, original_file, read_ok)
         IN /\ progress_file' = Absent
            /\ to_learn' = tl
            /\ original_count' = Len(tl)
            /\ cards_learned_today' = 0
            /\ IF tl # <<>>
               THEN \E c \in Range(tl) : next_card_on(tl, c)
               ELSE UNCHANGED <<current_card, timer>>
            /\ UNCHANGED <<original_file, last_removed, auto_flip_enabled>>
            /\ Logged("reset_progress")

\* The Reset button and the r key, the user answering the question with
\* confirm; unlink_ok tells whether deleting the progress file succeeds,
\* read_ok whether the reload can read its file.
reset_progress(confirm, unlink_ok, read_ok) ==
    IF ~confirm
    THEN /\ UNCHANGED <<files, store, timer>>
         /\ Logged("reset_declined")
    ELSE IF progress_file.exists /\ ~unlink_ok
    THEN /\ UNCHANGED <<files, store, timer>>
         /\ Logged("reset_failed")
    ELSE LET tl == Loaded(Absent, original_file, read_ok)
         IN /\ progress_file' = Absent
            /\ to_learn' = tl
            /\ original_count' = Len(tl)
            /\ cards_learned_today' = 0
            /\ IF tl # <<>>
               THEN \E c \in Range(tl) : next_card_on(tl, c)
               ELSE UNCHANGED <<current_card, timer>>
            /\ UNCHANGED <<original_file, last_removed, auto_flip_enabled>>
            /\ Logged("reset_progress")

\* A flip_card callback scheduled by window.after comes due.
flip_card ==
    \E i \in DOMAIN pending :
        /\ is_flipped' = TRUE
        /\ pending' = SubSeq(pending, 1, i - 1) \o
                      SubSeq(pending, i + 1, Len(pending))
        /\ latest_live' = (latest_live /\ i # Len(pending))
        /\ UNCHANGED <<files, store, auto_flip_enabled, flip_timer>>
        /\ Logged("flip_card")

\* The Flip button and the space key.
manual_flip ==
    /\ pending' = AfterCancel
    /\ latest_live' = FALSE
    /\ is_flipped' = ~is_flipped
    /\ UNCHANGED <<files, store, auto_flip_enabled, flip_timer>>
    /\ Logged("manual_flip")

\* The Auto-flip checkbox: Tk inverts auto_flip_var, then runs the command.
_toggle_auto_flip ==
    /\ auto_flip_enabled' = ~auto_flip_enabled
    /\ IF ~auto_flip_enabled' /\ flip_timer # "None"
       THEN pending' = AfterCancel /\ latest_live' = FALSE
       ELSE UNCHANGED <<pending, latest_live>>
    /\ UNCHANGED <<files, store, is_flipped, flip_timer>>
    /\ Logged("_toggle_auto_flip")

\* The state FlashcardApp.__init__ builds from the loaded list tl,
\* random.choice drawing c for the first card.
Started(tl, c) ==
    [to_learn |-> tl,
     original_count |-> Len(tl),
     current_card |-> IF tl = <<>> THEN NoCard ELSE c,
     flip_timer |-> IF tl = <<>> THEN "None" ELSE "Id",
     pending |-> IF tl = <<>> THEN <<>> ELSE <<c>>,
     latest_live |-> (tl # <<>>)]

\* The window is closed (Escape) and the program is started again: the
\* files stay, every field is built anew and Tk's callbacks are gone.
Restart(read_ok) ==
    LET tl == Loaded(progress_file, original_file, read_ok)
    IN \E c \in Choices(tl) :
        LET s == Started(tl, c)
        IN /\ to_learn' = s.to_learn
           /\ original_count' = s.original_count
           /\ current_card' = s.current_card
           /\ flip_timer' = s.flip_timer
           /\ pending' = s.pending
           /\ latest_live' = s.latest_live
           /\ last_removed' = None
           /\ cards_learned_today' = 0
           /\ is_flipped' = FALSE
           /\ auto_flip_enabled' = TRUE
           /\ UNCHANGED files
           /\ Logged("restart")

\* The first start: the original dataset file is any of the enumerated
\* ones or is missing, no progress has been saved yet, and n file
\* operations may fail later on.
Begin(n) ==
    /\ io_left = n
    /\ original_file \in DatasetFiles \cup {Absent}
    /\ progress_file = Absent
    /\ LET tl == _load_data(progress_file, original_file)
       IN \E c \in (IF tl = <<>> THEN {NoCard} ELSE Range(tl)) :
           LET s == Started(tl, c)
           IN /\ to_learn = s.to_learn
              /\ original_count = s.original_count
              /\ current_card = s.current_card
              /\ flip_timer = s.flip_timer
              /\ pending = s.pending
              /\ latest_live = s.latest_live
    /\ last_removed = None
    /\ cards_learned_today = 0
    /\ is_flipped = FALSE
    /\ auto_flip_enabled = TRUE
    /\ op = "init"
    /\ pre = [to_learn |-> <<>>, current_card |-> NoCard,
              last_removed |-> None, cards_learned_today |-> 0,
              op |-> "other"]
    /\ trail = <<>>
    /\ stored_count = 0
    /\ intervened = FALSE

\* Under Spec every file operation succeeds.
Init == Begin(0)

\* Under SpecIO up to MaxIOFailures file operations fail.
InitIO == Begin(MaxIOFailures)

\* Outcomes of a file operation: it may fail while failures are left.
Outcomes == IF io_left > 0 THEN BOOLEAN ELSE {TRUE}

\* A handler whose file operation failed uses up one failure.
Spend(failed) == io_left' = IF failed THEN io_left - 1 ELSE io_left

Next ==
    \/ next_card /\ UNCHANGED io_left
    \/ \E save_ok \in Outcomes :
           is_known(save_ok) /\ Spend(KnownGuard /\ ~save_ok)
    \/ \E save_ok \in Outcomes :
           undo_last(save_ok) /\ Spend(last_removed # None /\ ~save_ok)
    \/ \E confirm \in BOOLEAN, unlink_ok \in Outcomes, read_ok \in Outcomes :
           /\ unlink_ok \/ read_ok
           /\ reset_progress(confirm, unlink_ok, read_ok)
           /\ Spend(/\ confirm
                    /\ \/ progress_file.exists /\ ~unlink_ok
                       \/ original_file.exists /\ ~read_ok)
    \/ flip_card /\ UNCHANGED io_left
    \/ manual_flip /\ UNCHANGED io_left
    \/ _toggle_auto_flip /\ UNCHANGED io_left
    \/ \E read_ok \in Outcomes :
           /\ Restart(read_ok)
           /\ Spend(~read_ok /\ (progress_file.exists \/ original_file.exists))

Spec == Init /\ [][Next]_vars

SpecIO == InitIO /\ [][Next]_vars

\* ---------------------------------------------------------------- claims

\* Two lists hold the same records, each as often.
SameBag(s, t) ==
    \A x \in Range(s) \cup Range(t) : Count(x, s) = Count(x, t)

\* progressSummary's learnedTotal (_get_progress_text: learned).
learnedTotal == original_count - Len(to_learn)

\* C1 as stated: a "mark known" of a current card x that is in the working
\* set leaves a working set without x, one shorter, and raises the session
\* counter by one.
C1_KnownRemovesCard ==
    [][(op' = "is_known" /\ to_learn # <<>> /\ current_card \in Range(to_learn))
        => /\ current_card \notin Range(to_learn')
           /\ Len(to_learn') = Len(to_learn) - 1
           /\ cards_learned_today' = cards_learned_today + 1]_vars

\* C1 amended: a "mark known" of a current card x that is in the working set
\* removes one occurrence of x and nothing else (so x is gone unless the
\* list held it more than once), the list is one shorter and the session
\* counter is one larger.
C1_KnownRemovesOneOccurrence ==
    [][(op' = "is_known" /\ to_learn # <<>> /\ current_card \in Range(to_learn))
        => /\ Count(current_card, to_learn') = Count(current_card, to_learn) - 1
           /\ \A y \in Range(to_learn) \ {current_card} :
                  Count(y, to_learn') = Count(y, to_learn)
           /\ Range(to_learn') \subseteq Range(to_learn)
           /\ Len(to_learn') = Len(to_learn) - 1
           /\ cards_learned_today' = cards_learned_today + 1]_vars

\* C1 witness: a "mark known" has just removed one of two equal rows, and
\* the card is still in the working set.
C1_Witness ==
    /\ op = "is_known"
    /\ pre.current_card \in Range(pre.to_learn)
    /\ Count(pre.current_card, pre.to_learn) = 2
    /\ Count(pre.current_card, to_learn) = 1
    /\ Len(to_learn) = Len(pre.to_learn) - 1
    /\ cards_learned_today = pre.cards_learned_today + 1

\* What reset is to reload: the original dataset, or the demo records when
\* the original file is missing.
OriginalData ==
    IF original_file.exists THEN read_csv(original_file).data ELSE DemoData

\* C2 as stated: after a confirmed reset the progress file is absent, the
\* working set is the original dataset, the session counter is 0 and the
\* undo slot is empty.
C2_ResetClearsEverything ==
    [][op' = "reset_progress"
        => /\ ~progress_file'.exists
           /\ to_learn' = OriginalData
           /\ cards_learned_today' = 0
           /\ last_removed' = None]_vars

\* C3: a "mark known" of a current card that is in the working set,
\* followed at once by undo, gives back the working set (as a multiset of
\* records) and the session counter of before the "mark known".
C3_UndoInvertsKnown ==
    [][(/\ op = "is_known"
        /\ pre.to_learn # <<>>
        /\ pre.current_card \in Range(pre.to_learn)
        /\ op' = "undo_last")
        => /\ SameBag(to_learn', pre.to_learn)
           /\ cards_learned_today' = pre.cards_learned_today]_vars

\* C3 witness: an undo has just restored the card that the "mark known"
\* before it removed, with the session counter above 0 in between.
C3_Witness ==
    /\ op = "undo_last"
    /\ pre.op = "is_known"
    /\ pre.last_removed # None
    /\ pre.cards_learned_today >= 2
    /\ Len(to_learn) = Len(pre.to_learn) + 1
    /\ cards_learned_today = pre.cards_learned_today - 1

C5_SingleUndoSlot ==
    /\ [](Len(last_removed) <= 1)
    /\ [][(op' = "is_known" /\ current_card # NoCard /\ to_learn # <<>>)
           => last_removed' = <<current_card>>]_vars
    /\ [][(trail = <<"K", "K">> /\ op' = "undo_last")
           => /\ last_removed # None
              /\ to_learn' = Append(to_learn, last_removed[1])
              /\ last_removed' = None]_vars
    /\ [][(trail = <<"K", "K", "U">> /\ op' = "undo_last")
           => UNCHANGED store]_vars

\* C5 witness: from the start two cards were marked known and undo was
\* asked twice: one card is back, the other stays removed, the slot is empty.
C5_Witness ==
    /\ trail = Scenario
    /\ op = "undo_last"
    /\ last_removed = None
    /\ to_learn = pre.to_learn
    /\ Len(to_learn) = original_count - 1
    /\ cards_learned_today = 1

\* C6: learnedTotal does not go down in a step of a run that is neither an
\* undo nor a completed reset (skip, mark known, manual flip, auto-flip
\* toggle, timer); the start of a new run is no step of the run.
C6_LearnedTotalMonotonic ==
    [][op' \notin {"undo_last", "reset_progress", "restart"}
        => (original_count' - Len(to_learn')) >= learnedTotal]_vars

\* C6 witness: a "mark known" has just raised learnedTotal.
C6_Witness ==
    /\ op = "is_known"
    /\ Len(to_learn) < Len(pre.to_learn)
    /\ learnedTotal >= 2

\* C7: a completed reset that follows a completed reset leaves the working
\* set, original_count and the session counter as the first one left them.
C7_ResetIdempotent ==
    [][(op = "reset_progress" /\ op' = "reset_progress")
        => /\ to_learn' = to_learn
           /\ original_count' = original_count
           /\ cards_learned_today' = cards_learned_today]_vars

\* C7 witness: two completed resets in a row, on a working set with rows.
C7_Witness ==
    /\ op = "reset_progress"
    /\ pre.op = "reset_progress"
    /\ to_learn # <<>>
    /\ to_learn = pre.to_learn

\* C8: undo with an empty slot changes neither the working set, the
\* counters, the current card nor the files.
C8_UndoEmptySlotNoOp ==
    [][(op' = "undo_last" /\ last_removed = None)
        => UNCHANGED <<store, files>>]_vars

\* C8 witness: undo was asked with an empty slot while the session counter
\* was above 0.
C8_Witness ==
    /\ op = "undo_last"
    /\ pre.last_removed = None
    /\ pre.cards_learned_today >= 1
    /\ cards_learned_today = pre.cards_learned_today
    /\ to_learn = pre.to_learn

\* C9: "mark known" with an empty working set or without a current card
\* changes neither the working set, the undo slot, the session counter nor
\* the progress file.
C9_KnownGuardNoOp ==
    [][(op' = "is_known" /\ (to_learn = <<>> \/ current_card = NoCard))
        => UNCHANGED <<to_learn, last_removed, cards_learned_today,
                       progress_file>>]_vars

\* C9 witness: every card was marked known and "mark known" was asked
\* again: the slot and the counter are as before.
C9_Witness ==
    /\ op = "is_known"
    /\ pre.to_learn = <<>>
    /\ pre.current_card # NoCard
    /\ pre.last_removed # None
    /\ last_removed = pre.last_removed
    /\ cards_learned_today = pre.cards_learned_today
    /\ original_count > 0

\* What C10 says load returns: the rows of the progress file if it is
\* present and has a row; else the original dataset if that file is
\* present; else the demo records.
C10_Expected ==
    IF progress_file.exists /\ Len(progress_file.rows) > 0
    THEN read_csv(progress_file).data
    ELSE OriginalData

\* C10 as stated: right after a start the working set is what that order
\* gives, and original_count is its size.
C10_LoadOrder ==
    op \in {"init", "restart"}
        => /\ to_learn = C10_Expected
           /\ original_count = Len(to_learn)

\* The rows _save_progress writes for the list tl.
RowsOf(tl) == [i \in 1..Len(tl) |-> <<tl[i].Urdu, tl[i].English>>]

\* C11: every "mark known" that passes its guard and every undo with the
\* slot occupied rewrites the progress file in the same request: with
\* writes that succeed, the file is there at the end of the request and its
\* rows are the working set, row for row.
C11_SavedAfterEveryChange ==
    [][(\/ op' = "is_known" /\ KnownGuard
        \/ op' = "undo_last" /\ last_removed # None)
        => /\ progress_file'.exists
           /\ progress_file'.rows = RowsOf(to_learn')]_vars

\* C11 witness: an undo has put a card back into a working set that had
\* been saved before, and the file holds the two or more rows of the list.
C11_Witness ==
    /\ op = "undo_last"
    /\ pre.last_removed # None
    /\ Len(to_learn) >= 2
    /\ progress_file.exists
    /\ progress_file.rows = RowsOf(to_learn)

\* C12: when the write of _save_progress fails during a "mark known" or an
\* undo, the file stays as it was and the request ends as it does when the
\* write succeeds: the list, the undo slot and the session counter get the
\* same values, and after a "mark known" the next card of the list is
\* shown front side up.
C12_SaveFailureKeepsMemory ==
    [][(io_left' < io_left /\ op' \in {"is_known", "undo_last"})
        => /\ progress_file' = progress_file
           /\ op' = "is_known"
                => /\ to_learn' = (IF current_card \in Range(to_learn)
                                   THEN Remove(to_learn, current_card)
                                   ELSE to_learn)
                   /\ last_removed' = <<current_card>>
                   /\ cards_learned_today' = cards_learned_today + 1
                   /\ to_learn' # <<>>
                        => /\ current_card' \in Range(to_learn')
                           /\ is_flipped' = FALSE
           /\ op' = "undo_last"
                => /\ to_learn' = Append(to_learn, last_removed[1])
                   /\ last_removed' = None
                   /\ cards_learned_today' = Max0(cards_learned_today - 1)
                   /\ current_card' = current_card]_vars

\* C12 witness: a "mark known" whose write failed has removed the card,
\* the file does not hold the new list, and a card of the list is shown.
C12_Witness ==
    /\ op = "is_known"
    /\ io_left < MaxIOFailures
    /\ Len(to_learn) = Len(pre.to_learn) - 1
    /\ last_removed = <<pre.current_card>>
    /\ cards_learned_today = pre.cards_learned_today + 1
    /\ progress_file # to_csv(to_learn)
    /\ to_learn # <<>>
    /\ current_card \in Range(to_learn)

\* C13: a skip (next_card) leaves the working set, the undo slot, the
\* session counter, the original count, the auto-flip setting and both
\* files as they were; with cards left, the card shown next is one of the
\* working set.
C13_SkipChangesCardOnly ==
    [][op' = "next_card"
        => /\ UNCHANGED <<to_learn, last_removed, cards_learned_today,
                          original_count, auto_flip_enabled, files>>
           /\ to_learn # <<>> => current_card' \in Range(to_learn)]_vars

\* C13 witness: a skip, made with the undo slot occupied and a saved
\* progress file, has moved to another card of the same working set.
C13_Witness ==
    /\ op = "next_card"
    /\ last_removed # None
    /\ progress_file.exists
    /\ cards_learned_today >= 1
    /\ to_learn = pre.to_learn
    /\ current_card # pre.current_card
    /\ current_card \in Range(to_learn)

\* C14: at most one flip_card callback is outstanding, and when one comes
\* due, the current card is the card it was scheduled for and the user has
\* not flipped by hand, moved on, marked known, reset or switched the
\* auto-flip off since it was scheduled.
C14_TimerNeverStale ==
    /\ [](Len(pending) <= 1)
    /\ [][op' = "flip_card"
           => /\ \A i \in DOMAIN pending : pending[i] = current_card
              /\ ~intervened]_vars

\* C15: an undo with the slot occupied appends the stored card, empties the
\* slot and sets the session counter to max(0, storedCount), storedCount
\* being the counter as it was before the "mark known" that filled the
\* slot, whatever was requested in between.
C15_UndoRestoresStoredCount ==
    [][(op' = "undo_last" /\ last_removed # None)
        => /\ to_learn' = Append(to_learn, last_removed[1])
           /\ last_removed' = None
           /\ cards_learned_today' = Max0(stored_count)]_vars

\* C16: the working set is never longer than the original count, so the
\* progress summary's learned total is between 0 and the total.
C16_WorkingSetWithinOriginal ==
    /\ Len(to_learn) <= original_count
    /\ learnedTotal \in 0..original_count

\* C17: at the end of every request, a working set that is not empty holds
\* the current card.
C17_CurrentCardInWorkingSet ==
    to_learn # <<>> => current_card \in Range(to_learn)

====
